---- MODULE Spec2Model ----
(***************************************************************************)
(* Survivor Draft: the scoring and standings functions of src/app.py over *)
(* the `castaways` and `predictions` tables of the data store.            *)
(*                                                                         *)
(* The store is the state: `cast` is the castaways table (rows in the     *)
(* order the seeding script inserted them), `preds` the predictions table *)
(* (a bag of rows; the table has no order of its own).  `result` is the   *)
(* value a read has returned to the page that called it; the page takes   *)
(* it before the session makes its next call.  `users` is the users       *)
(* table.  `calls` holds, per browser session, the call that session has  *)
(* in flight when the requests of a call are interleaved with those of    *)
(* other sessions (the position in the call and its local variables).     *)
(***************************************************************************)
EXTENDS Integers, Sequences, FiniteSets, Bags, TLC

VARIABLES cast, preds, result, users, calls

vars == <<cast, preds, result, users, calls>>

\* the state only the interleaved calls touch
conc == <<users, calls>>

(* ------------------------------------------------------------------ *)
(* Bounds of the model                                                  *)
(* ------------------------------------------------------------------ *)
\* castaways that may carry an administrative flag at the same time
MaxFlagged == 1
\* rows of the predictions table
MaxRows == 2

\* The roster the seeding script inserts, in insertion order.
Roster == <<"A", "B", "C", "D">>
\* The browser sessions that may have a call in flight.
Sessions == {"s1", "s2"}
\* a session without a call in flight
Idle == [op |-> "idle", pc |-> "done"]

\* Usernames, in ascending (lexicographic) order.
UserOrder == <<"u1", "u2">>
Users == {UserOrder[i] : i \in 1..Len(UserOrder)}
Names == {Roster[i] : i \in 1..Len(Roster)}
\* predicted ranks a stored row may carry (1..24 in the form of a 24-player season)
PredRanks == 1..Len(Roster)

\* a null actual_rank (not yet eliminated) / a null cell of the standings
\* table; no rank, and in particular not the number 0
None == -1

\* tribe of a roster name (the script sorts the roster by tribe, then name)
Tribe(name) == IF name \in {"A", "B"} THEN "Cila" ELSE "Kalo"

(* ------------------------------------------------------------------ *)
(* Helpers                                                              *)
(* ------------------------------------------------------------------ *)
Min(a, b) == IF a <= b THEN a ELSE b

RECURSIVE SumFn(_)
SumFn(f) ==
    IF DOMAIN f = {} THEN 0
    ELSE LET x == CHOOSE y \in DOMAIN f : TRUE
         IN  f[x] + SumFn([y \in DOMAIN f \ {x} |-> f[y]])

Range(s) == {s[i] : i \in 1..Len(s)}

UserIdx(u) == CHOOSE i \in 1..Len(UserOrder) : UserOrder[i] = u

\* rows of the predictions table as a set, and the number of rows
PredRows(P) == BagToSet(P)
NumRows(P) == BagCardinality(P)

\* the castaway row of a player name, if the table has one
HasCast(C, name) == \E i \in 1..Len(C) : C[i].player_name = name
CastOf(C, name) == C[CHOOSE i \in 1..Len(C) : C[i].player_name = name]

Eliminated(C) == {i \in 1..Len(C) : C[i].actual_rank # None}
Flagged(C) == {i \in 1..Len(C) : C[i].is_final_three \/ C[i].is_winner}

NoResult == [op |-> "none", raised |-> FALSE, out |-> <<>>]

(* ------------------------------------------------------------------ *)
(* calculate_scores                                                     *)
(* ------------------------------------------------------------------ *)
\* pred_df.merge(cast_df, on="player_name", how="left"): every prediction
\* row, with the castaway's columns when the table has that player_name
\* and nulls otherwise.
JoinRow(C, r) ==
    [username       |-> r.username,
     player_name    |-> r.player_name,
     predicted_rank |-> r.predicted_rank,
     actual_rank    |-> IF HasCast(C, r.player_name)
                        THEN CastOf(C, r.player_name).actual_rank ELSE None,
     is_final_three |-> HasCast(C, r.player_name)
                        /\ CastOf(C, r.player_name).is_final_three,
     is_winner      |-> HasCast(C, r.player_name)
                        /\ CastOf(C, r.player_name).is_winner]

PredOf(j) ==
    [username |-> j.username, player_name |-> j.player_name,
     predicted_rank |-> j.predicted_rank]

Merged(C, P) ==
    [j \in {JoinRow(C, r) : r \in PredRows(P)} |-> CopiesIn(PredOf(j), P)]

\* faulty variant: the rows without an actual_rank are not filtered out
Scored_NoFilter(C, P) == Merged(C, P)

\* merged[merged["actual_rank"].notna()]
Scored(C, P) ==
    LET M == Merged(C, P)
    IN  [j \in {k \in DOMAIN M : k.actual_rank # None} |-> M[j]]

\* the rows of one user (a group of scored.groupby("username"))
GroupOf(S, u) == [j \in {k \in DOMAIN S : k.username = u} |-> S[j]]

\* the group keys, ascending
GroupKeys(S) == {j.username : j \in DOMAIN S}

\* faulty variant: the is_final_three flag is ignored
RowScore_NoFinalThreeFlag(row, n_players) ==
    LET actual == row.actual_rank
        predicted == row.predicted_rank
        final_3_min == n_players - 2
    IN  Min(actual, predicted)
        + (IF actual = predicted THEN 1 ELSE 0)
        + (IF actual >= final_3_min /\ predicted >= final_3_min THEN 3 ELSE 0)
        + (IF (row.is_winner \/ actual = n_players) /\ predicted = n_players
           THEN 5 ELSE 0)

\* faulty variant: the winner bonus replaces the final-three bonus
\* instead of stacking on it
RowScore_NoStacking(row, n_players) ==
    LET actual == row.actual_rank
        predicted == row.predicted_rank
        final_3_min == n_players - 2
        won == (row.is_winner \/ actual = n_players) /\ predicted = n_players
    IN  Min(actual, predicted)
        + (IF actual = predicted THEN 1 ELSE 0)
        + (IF won THEN 5
           ELSE IF (row.is_final_three \/ actual >= final_3_min)
                   /\ predicted >= final_3_min THEN 3 ELSE 0)

\* faulty variant: the is_winner flag is ignored
RowScore_NoWinnerFlag(row, n_players) ==
    LET actual == row.actual_rank
        predicted == row.predicted_rank
        final_3_min == n_players - 2
    IN  Min(actual, predicted)
        + (IF actual = predicted THEN 1 ELSE 0)
        + (IF (row.is_final_three \/ actual >= final_3_min)
              /\ predicted >= final_3_min THEN 3 ELSE 0)
        + (IF actual = n_players /\ predicted = n_players THEN 5 ELSE 0)

\* the points of one joined row: base, exact, final-three and winner bonus
RowScore(row, n_players) ==
    LET actual == row.actual_rank
        predicted == row.predicted_rank
        final_3_min == n_players - 2
        in_final_3_actual == row.is_final_three \/ (actual >= final_3_min)
        in_final_3_predicted == predicted >= final_3_min
        actually_won == row.is_winner \/ (actual = n_players)
        predicted_winner == predicted = n_players
    IN  Min(actual, predicted)
        + (IF actual = predicted THEN 1 ELSE 0)
        + (IF in_final_3_actual /\ in_final_3_predicted THEN 3 ELSE 0)
        + (IF actually_won /\ predicted_winner THEN 5 ELSE 0)

\* the loop over group.iterrows(): total and exact of one user
GroupTotal(grp, n_players) ==
    SumFn([j \in DOMAIN grp |-> grp[j] * RowScore(j, n_players)])

GroupExact(grp) ==
    SumFn([j \in DOMAIN grp |->
              grp[j] * (IF j.actual_rank = j.predicted_rank THEN 1 ELSE 0)])

\* results: one record per group
ScoreResults(C, P) ==
    LET S == Scored(C, P)
    IN  {[Player |-> u,
          Score  |-> GroupTotal(GroupOf(S, u), Len(C)),
          Exact  |-> GroupExact(GroupOf(S, u)),
          Picks  |-> BagCardinality(GroupOf(S, u))] : u \in GroupKeys(S)}

\* sort_values("Score", ascending=False).reset_index(drop=True) and the
\* Rank column df.index + 1.  The sort is not stable: records of equal
\* Score may come out in either order.
ScoreOrdered(s) == \A i, j \in 1..Len(s) : i < j => s[i].Score >= s[j].Score

\* faulty variant: ascending instead of descending
SortByScore_Ascending(R) ==
    {s \in [1..Cardinality(R) -> R] :
        /\ \A i, j \in 1..Cardinality(R) : i # j => s[i] # s[j]
        /\ \A i, j \in 1..Cardinality(R) : i < j => s[i].Score <= s[j].Score}

SortByScore(R) ==
    {s \in [1..Cardinality(R) -> R] :
        /\ \A i, j \in 1..Cardinality(R) : i # j => s[i] # s[j]
        /\ ScoreOrdered(s)}

WithRank(s) ==
    [i \in 1..Len(s) |->
        [Rank |-> i, Player |-> s[i].Player, Score |-> s[i].Score,
         Exact |-> s[i].Exact, Picks |-> s[i].Picks]]

\* every value calculate_scores may return on the store (C, P)
calculate_scores(C, P) ==
    IF P = EmptyBag THEN {[raised |-> FALSE, out |-> <<>>]}
    ELSE IF Len(C) = 0 THEN {[raised |-> TRUE, out |-> <<>>]}
    ELSE {[raised |-> FALSE, out |-> WithRank(s)] : s \in SortByScore(ScoreResults(C, P))}

(* ------------------------------------------------------------------ *)
(* compute_score_progression                                            *)
(* ------------------------------------------------------------------ *)
\* faulty variant: descending
RECURSIVE Sorted_Descending(_)
Sorted_Descending(S) ==
    IF S = {} THEN <<>>
    ELSE LET m == CHOOSE x \in S : \A y \in S : x >= y
         IN  <<m>> \o Sorted_Descending(S \ {m})

\* sorted(...): the ascending sequence of a set of integers
RECURSIVE Sorted(_)
Sorted(S) ==
    IF S = {} THEN <<>>
    ELSE LET m == CHOOSE x \in S : \A y \in S : x <= y
         IN  <<m>> \o Sorted(S \ {m})

\* the group keys in the order groupby yields them
KeySeq(S) == SelectSeq(UserOrder, LAMBDA u : u \in GroupKeys(S))

\* grp_indexed.loc[rank]: the rows of a group at one actual_rank
RowsAt(grp, rank) == {j \in DOMAIN grp : j.actual_rank = rank}
CountAt(grp, rank) == SumFn([j \in RowsAt(grp, rank) |-> grp[j]])

\* faulty variant: the replay forgets the winner bonus
ProgRowScore_NoWinnerBonus(row, rank, n_players) ==
    LET actual == rank
        predicted == row.predicted_rank
        final_3_min == n_players - 2
    IN  Min(actual, predicted)
        + (IF actual = predicted THEN 1 ELSE 0)
        + (IF (row.is_final_three \/ actual >= final_3_min)
              /\ predicted >= final_3_min THEN 3 ELSE 0)

\* the points the replay adds for the row at checkpoint `rank`
ProgRowScore(row, rank, n_players) ==
    LET actual == rank
        predicted == row.predicted_rank
        final_3_min == n_players - 2
        in_f3_actual == row.is_final_three \/ actual >= final_3_min
        in_f3_predicted == predicted >= final_3_min
    IN  Min(actual, predicted)
        + (IF actual = predicted THEN 1 ELSE 0)
        + (IF in_f3_actual /\ in_f3_predicted THEN 3 ELSE 0)
        + (IF (row.is_winner \/ actual = n_players) /\ predicted = n_players
           THEN 5 ELSE 0)

\* faulty variant: `running` is reset at every checkpoint
Running_Reset(grp, elim_order, k, n_players) ==
    IF k = 0 THEN 0
    ELSE IF RowsAt(grp, elim_order[k]) # {}
         THEN ProgRowScore(CHOOSE j \in RowsAt(grp, elim_order[k]) : TRUE,
                           elim_order[k], n_players)
         ELSE 0

\* `running` after the first k checkpoints of elim_order
RECURSIVE Running(_, _, _, _)
Running(grp, elim_order, k, n_players) ==
    IF k = 0 THEN 0
    ELSE Running(grp, elim_order, k - 1, n_players)
         + (IF RowsAt(grp, elim_order[k]) # {}
            THEN ProgRowScore(CHOOSE j \in RowsAt(grp, elim_order[k]) : TRUE,
                              elim_order[k], n_players)
            ELSE 0)

\* the points appended for one user, in the order of the inner loop
UserPoints(grp, user, elim_order, n_players) ==
    [k \in 1..Len(elim_order) |->
        [Elimination |-> elim_order[k], Player |-> user,
         Score |-> Running(grp, elim_order, k, n_players)]]

\* the outer loop over the groups: the points of every user, user by user
RECURSIVE AllPoints(_, _, _, _)
AllPoints(S, keys, elim_order, n_players) ==
    IF keys = <<>> THEN <<>>
    ELSE UserPoints(GroupOf(S, Head(keys)), Head(keys), elim_order, n_players)
         \o AllPoints(S, Tail(keys), elim_order, n_players)

\* the value compute_score_progression returns on the store (C, P).  A
\* group with two rows at one actual_rank makes .loc return a frame and
\* int(...) raise.
compute_score_progression(C, P) ==
    IF Len(C) = 0 THEN [raised |-> TRUE, out |-> <<>>]
    ELSE IF Eliminated(C) = {} THEN [raised |-> FALSE, out |-> <<>>]
    ELSE IF P = EmptyBag THEN [raised |-> FALSE, out |-> <<>>]
    ELSE LET S == Scored(C, P)
             elim_order == Sorted({j.actual_rank : j \in DOMAIN S})
         IN  IF \E u \in GroupKeys(S), r \in Range(elim_order) :
                    CountAt(GroupOf(S, u), r) > 1
             THEN [raised |-> TRUE, out |-> <<>>]
             ELSE [raised |-> FALSE,
                   out |-> AllPoints(S, KeySeq(S), elim_order, Len(C))]

(* ------------------------------------------------------------------ *)
(* load_all_predictions                                                 *)
(* ------------------------------------------------------------------ *)
\* the columns of the pivot: the usernames of the predictions table
PivotColumns(P) == {r.username : r \in PredRows(P)}

\* pivot raises when an (index, column) pair occurs twice
PivotRaises(P) ==
    \E r \in PredRows(P) :
        \/ P[r] > 1
        \/ \E q \in PredRows(P) :
              q # r /\ q.username = r.username /\ q.player_name = r.player_name

\* faulty variant: an absent cell is filled with zero
Cell_ZeroFill(P, name, u) ==
    IF \E r \in PredRows(P) : r.username = u /\ r.player_name = name
    THEN (CHOOSE r \in PredRows(P) : r.username = u /\ r.player_name = name).predicted_rank
    ELSE 0

\* the cell of the pivot at (player_name, username); null when absent
Cell(P, name, u) ==
    IF \E r \in PredRows(P) : r.username = u /\ r.player_name = name
    THEN (CHOOSE r \in PredRows(P) : r.username = u /\ r.player_name = name).predicted_rank
    ELSE None

\* cast_df.set_index("player_name").join(pivot, how="left"), columns
\* tribe, actual_rank, then the user columns
StandingsRow(c, P, user_cols) ==
    [player_name |-> c.player_name, tribe |-> c.tribe, actual_rank |-> c.actual_rank,
     cells |-> [u \in user_cols |-> Cell(P, c.player_name, u)]]

\* avg_rank = mean of the non-null cells of a row, as sum and count
RankSum(row) ==
    SumFn([u \in {v \in DOMAIN row.cells : row.cells[v] # None} |-> row.cells[u]])
RankCount(row) == Cardinality({u \in DOMAIN row.cells : row.cells[u] # None})
HasAvg(row) == RankCount(row) > 0
\* faulty variant: the rows are ordered by the sum of their ranks
AvgLeq_BySum(a, b) == RankSum(a) <= RankSum(b)
\* mean(a) <= mean(b), the means compared as fractions
AvgLeq(a, b) == RankSum(a) * RankCount(b) <= RankSum(b) * RankCount(a)

\* sort_values("avg_rank"): rows with a mean ascending by it (equal means
\* in either order), then the rows without one in their table order
SortByAvg(rows) ==
    LET idx == {i \in 1..Len(rows) : HasAvg(rows[i])}
        nan == SelectSeq(rows, LAMBDA r : ~HasAvg(r))
    IN  {[k \in 1..Cardinality(idx) |-> rows[p[k]]] \o nan :
            p \in {q \in [1..Cardinality(idx) -> idx] :
                     /\ \A a, b \in 1..Cardinality(idx) : a # b => q[a] # q[b]
                     /\ \A a, b \in 1..Cardinality(idx) :
                           a < b => AvgLeq(rows[q[a]], rows[q[b]])}}

\* every value load_all_predictions may return on the store (C, P)
load_all_predictions(C, P) ==
    IF Len(C) = 0 THEN {[raised |-> TRUE, out |-> <<>>]}
    ELSE IF P = EmptyBag
    THEN {[raised |-> FALSE,
           out |-> [i \in 1..Len(C) |-> StandingsRow(C[i], P, {})]]}
    ELSE IF PivotRaises(P) THEN {[raised |-> TRUE, out |-> <<>>]}
    ELSE {[raised |-> FALSE, out |-> s] :
            s \in SortByAvg([i \in 1..Len(C) |-> StandingsRow(C[i], P, PivotColumns(P))])}

(* ------------------------------------------------------------------ *)
(* get_game_state                                                       *)
(* ------------------------------------------------------------------ *)
\* a null name (winner = None)
NoOne == "<none>"

\* faulty variant: the first row of the sorted frame is taken
MostRecent_First(C) ==
    C[CHOOSE i \in Eliminated(C) :
        \A j \in Eliminated(C) : C[i].actual_rank <= C[j].actual_rank]

\* eliminated.sort_values("actual_rank").iloc[-1]
MostRecent(C) ==
    C[CHOOSE i \in Eliminated(C) :
        \A j \in Eliminated(C) : C[j].actual_rank <= C[i].actual_rank]

\* predictions .eq("player_name", name): the rows on one castaway
PredsFor(P, name) == {r \in PredRows(P) : r.player_name = name}

\* rows["player_name"].tolist()
NamesOf(rows) == [i \in 1..Len(rows) |-> rows[i].player_name]

\* faulty variant: the castaway ranked n_total goes before the flag
WinnerRows_RankFirst(C) ==
    LET top == NamesOf(SelectSeq(C, LAMBDA c : c.actual_rank = Len(C)))
    IN  IF top = <<>> THEN NamesOf(SelectSeq(C, LAMBDA c : c.is_winner)) ELSE top

\* winner_rows, with the fallback on actual_rank == n_total
WinnerRows(C) ==
    LET flagged == NamesOf(SelectSeq(C, LAMBDA c : c.is_winner))
    IN  IF flagged = <<>> /\ Eliminated(C) # {}
        THEN NamesOf(SelectSeq(C, LAMBDA c : c.actual_rank = Len(C)))
        ELSE flagged

\* the dict of the early return: three keys only.  The keys the dict does
\* not carry read as their state.get defaults.
NotStarted(C) ==
    [full |-> FALSE, n_eliminated |-> 0, n_remaining |-> Len(C),
     most_recent |-> <<>>, exact |-> {}, too_high |-> {}, too_low |-> {},
     final_three |-> <<>>, winner |-> NoOne, scores |-> <<>>]

\* the dict of the full return, from the castaways read first (C), the
\* predictions read for the most recent castaway (rows) and the list
\* calculate_scores returned (scores)
Snapshot(C, rows, scores) ==
    LET most_recent == MostRecent(C)
        actual_r == most_recent.actual_rank
        winner_rows == WinnerRows(C)
    IN  [full |-> TRUE,
         n_eliminated |-> Cardinality(Eliminated(C)),
         n_remaining |-> Len(C) - Cardinality(Eliminated(C)),
         most_recent |-> <<most_recent>>,
         exact |-> {r.username : r \in {q \in rows : q.predicted_rank = actual_r}},
         too_high |-> {r.username : r \in {q \in rows : q.predicted_rank > actual_r}},
         too_low |-> {r.username : r \in {q \in rows : q.predicted_rank < actual_r}},
         final_three |-> NamesOf(SelectSeq(C, LAMBDA c : c.is_final_three)),
         winner |-> IF winner_rows # <<>> THEN winner_rows[1] ELSE NoOne,
         scores |-> scores]

\* every value get_game_state may return when all its reads see the store
\* (C, P).  An empty castaways table gives a frame without columns, and
\* cast_df["actual_rank"] raises KeyError.
get_game_state(C, P) ==
    IF Len(C) = 0 THEN {[raised |-> TRUE, out |-> <<>>]}
    ELSE IF Eliminated(C) = {} THEN {[raised |-> FALSE, out |-> NotStarted(C)]}
    ELSE {[raised |-> o.raised,
           out |-> IF o.raised THEN <<>>
                   ELSE Snapshot(C, PredsFor(P, MostRecent(C).player_name), o.out)] :
             o \in calculate_scores(C, P)}

(* ------------------------------------------------------------------ *)
(* Overview tab: the narrative                                          *)
(* ------------------------------------------------------------------ *)
\* the narrative when the state is empty or nobody is eliminated
NotStartedNarrative(failed) ==
    [error |-> failed, started |-> FALSE, crowned |-> NoOne, voted_out |-> NoOne,
     exact |-> {}, final_three |-> FALSE,
     line |-> "none", leader |-> NoOne, second |-> NoOne, pts |-> 0, gap |-> 0]

\* faulty variant: the first of the list is named the leader even on a tie
LeaderLine_NoTie(scores_df) ==
    IF Len(scores_df) >= 2
    THEN [line |-> "leads", leader |-> scores_df[1].Player,
          second |-> scores_df[2].Player, pts |-> scores_df[1].Score,
          gap |-> scores_df[1].Score - scores_df[2].Score]
    ELSE [line |-> "none", leader |-> NoOne, second |-> NoOne, pts |-> 0, gap |-> 0]

\* the leader line of the narrative, from the bundled scores
LeaderLine(scores_df) ==
    IF Len(scores_df) >= 2
    THEN LET leader == scores_df[1]
             second == scores_df[2]
             gap == leader.Score - second.Score
         IN  [line |-> IF gap = 0 THEN "tied" ELSE "leads",
              leader |-> leader.Player, second |-> second.Player,
              pts |-> leader.Score, gap |-> gap]
    ELSE [line |-> "none", leader |-> NoOne, second |-> NoOne, pts |-> 0, gap |-> 0]

\* the narrative of a state with at least one elimination
Narrative(state) ==
    LET l == LeaderLine(state.scores)
    IN  [error |-> FALSE, started |-> TRUE,
         crowned |-> state.winner,
         voted_out |-> IF state.winner # NoOne THEN NoOne
                       ELSE state.most_recent[1].player_name,
         exact |-> state.exact,
         final_three |-> state.winner = NoOne /\ Len(state.final_three) >= 3,
         line |-> l.line, leader |-> l.leader, second |-> l.second,
         pts |-> l.pts, gap |-> l.gap]

\* every narrative the Overview tab may render on the store (C, P): the
\* three reads of the tab sit in one try block, and when any of them
\* raises the state is the empty dict
tab_overview(C, P) ==
    LET failed == \/ \A g \in get_game_state(C, P) : g.raised
                  \/ compute_score_progression(C, P).raised
                  \/ \A o \in load_all_predictions(C, P) : o.raised
    IN  IF failed THEN {NotStartedNarrative(TRUE)}
        ELSE {IF g.out.n_eliminated = 0 THEN NotStartedNarrative(FALSE)
              ELSE Narrative(g.out) : g \in get_game_state(C, P)}

(* ------------------------------------------------------------------ *)
(* Writers of the store                                                 *)
(* ------------------------------------------------------------------ *)
\* seed_castaways.py: upsert the next castaway of the roster
Seed ==
    /\ result = NoResult
    /\ Len(cast) < Len(Roster)
    /\ cast' = Append(cast,
                 [player_name |-> Roster[Len(cast) + 1],
                  tribe |-> Tribe(Roster[Len(cast) + 1]),
                  actual_rank |-> None,
                  is_final_three |-> FALSE,
                  is_winner |-> FALSE])
    /\ result' = NoResult
    /\ UNCHANGED <<preds, conc>>

\* the administrator enters the latest elimination: the next rank goes to
\* the castaway that leaves next (the castaways leave in roster order)
SetActualRank ==
    LET i == Cardinality(Eliminated(cast)) + 1
    IN  /\ result = NoResult
        /\ i <= Len(cast)
        /\ cast[i].actual_rank = None
        /\ cast' = [cast EXCEPT ![i].actual_rank = i]
        /\ result' = NoResult
        /\ UNCHANGED <<preds, conc>>

\* the administrator sets the two flags of a castaway
SetFlags(i, f3, w) ==
    /\ result = NoResult
    /\ cast[i].is_final_three # f3 \/ cast[i].is_winner # w
    /\ cast' = [cast EXCEPT ![i].is_final_three = f3, ![i].is_winner = w]
    /\ Cardinality(Flagged(cast')) <= MaxFlagged
    /\ result' = NoResult
    /\ UNCHANGED <<preds, conc>>

\* save_user_predictions(username, df): delete the user's rows, insert the
\* rows of df that carry a rank
OtherRows(P, username) ==
    [r \in {q \in PredRows(P) : q.username # username} |-> P[r]]

save_user_predictions(P, username, df) ==
    LET rows == {[username |-> username, player_name |-> n,
                  predicted_rank |-> df[n]] : n \in {m \in DOMAIN df : df[m] # None}}
    IN  OtherRows(P, username) (+) SetToBag(rows)

\* the frames handed to save_user_predictions: one row per name, a rank or null
Frames(budget) ==
    UNION {{[n \in Names |-> IF n \in D THEN f[n] ELSE None] : f \in [D -> PredRanks]} :
              D \in {E \in SUBSET Names : Cardinality(E) <= budget}}

SaveUserPredictions(username) ==
    /\ result = NoResult
    /\ \E df \in Frames(MaxRows - NumRows(OtherRows(preds, username))) :
          /\ preds' = save_user_predictions(preds, username, df)
          /\ preds' # preds
          /\ result' = NoResult
          /\ UNCHANGED <<cast, conc>>

(* ------------------------------------------------------------------ *)
(* My Picks tab: the Save My Picks button                               *)
(* ------------------------------------------------------------------ *)
\* the frames the editor can hold: one row per castaway of the table, the
\* rank null or a number from 1 to n_players
EditedFrames(C) ==
    [{C[i].player_name : i \in 1..Len(C)} -> (1..Len(C)) \cup {None}]

\* ranks_filled = edited["predicted_rank"].dropna(), as the rows that have one
RanksFilled(edited) == {n \in DOMAIN edited : edited[n] # None}

\* faulty variant: the duplicate check never fires
HasDuplicates_Never(edited) == FALSE

\* ranks_filled.nunique() < n_filled
HasDuplicates(edited) ==
    Cardinality({edited[n] : n \in RanksFilled(edited)}) < Cardinality(RanksFilled(edited))

\* a click on the button with the frame `edited` in the editor: a warning
\* when a rank is used twice, otherwise the save
SaveMyPicks(username) ==
    /\ result = NoResult
    /\ Len(cast) >= 1
    /\ \E edited \in EditedFrames(cast) :
          /\ IF HasDuplicates(edited)
             THEN preds' = preds
             ELSE preds' = save_user_predictions(preds, username, edited)
          /\ result' = [op |-> "save_my_picks", raised |-> FALSE,
                        out |-> [username |-> username, edited |-> edited,
                                 saved |-> ~HasDuplicates(edited),
                                 n_filled |-> Cardinality(RanksFilled(edited)),
                                 n_total |-> Len(cast)]]
    /\ UNCHANGED <<cast, conc>>

(* ------------------------------------------------------------------ *)
(* save_user_predictions, request by request                            *)
(* ------------------------------------------------------------------ *)
\* a session has no call in flight: it is idle or its last call has ended
AtRest(s) == calls[s].pc \in {"done", "failed"}

\* the rows save_user_predictions builds from df
NewRows(username, df) ==
    {[username |-> username, player_name |-> n, predicted_rank |-> df[n]] :
        n \in {m \in DOMAIN df : df[m] # None}}

\* a row of rows has the (username, player_name) of a stored row
Conflicts(P, rows) ==
    \E r \in rows, q \in PredRows(P) :
        q.username = r.username /\ q.player_name = r.player_name

\* Save My Picks in session s, up to and including the first request of
\* save_user_predictions: the delete of the user's rows.  `old` keeps the
\* rows the user had before the call, until the call ends.
SaveDelete(s, username) ==
    /\ result = NoResult
    /\ AtRest(s)
    /\ Len(cast) >= 1
    /\ \E edited \in EditedFrames(cast) :
          /\ ~HasDuplicates(edited)
          /\ calls' = [calls EXCEPT ![s] =
                [op |-> "save", username |-> username,
                 rows |-> NewRows(username, edited),
                 old |-> IF NewRows(username, edited) = {} THEN {}
                         ELSE {r \in PredRows(preds) : r.username = username},
                 pc |-> IF NewRows(username, edited) = {} THEN "done" ELSE "insert"]]
    /\ preds' = OtherRows(preds, username)
    /\ UNCHANGED <<cast, result, users>>

\* the second request: the insert of the new rows.  Whether the table
\* rejects a second row for a (username, player_name) is a matter of its
\* schema, which the application does not fix: on such a conflict the
\* insert either stores the rows or fails as a whole and the call raises.
SaveInsert(s) ==
    /\ result = NoResult
    /\ calls[s].op = "save" /\ calls[s].pc = "insert"
    /\ \/ /\ preds' = preds (+) SetToBag(calls[s].rows)
          /\ calls' = [calls EXCEPT ![s].pc = "done", ![s].old = {}]
       \/ /\ Conflicts(preds, calls[s].rows)
          /\ preds' = preds
          /\ calls' = [calls EXCEPT ![s].pc = "failed", ![s].old = {}]
    /\ UNCHANGED <<cast, result, users>>

(* ------------------------------------------------------------------ *)
(* register_user, request by request                                    *)
(* ------------------------------------------------------------------ *)
\* the names typed into the registration form (stripped, not empty, at
\* most 50 characters, none of them with a LIKE wildcard)
RegNames == {"Bob", "bob", "Al"}

\* the name in lower case
Lower(name) ==
    IF name = "Bob" THEN "bob" ELSE IF name = "Al" THEN "al" ELSE name

\* username ILIKE pattern, for a pattern without wildcards
ILike(username, pattern) == Lower(username) = Lower(pattern)

\* the first request of register_user: the look-up of the name; the call
\* returns False when it finds a row
RegisterCheck(s, new_username) ==
    /\ AtRest(s)
    /\ LET existing == {n \in BagToSet(users) : ILike(n, new_username)}
       IN  calls' = [calls EXCEPT ![s] =
                [op |-> "register", username |-> new_username,
                 pc |-> IF existing # {} THEN "done" ELSE "insert",
                 ret |-> FALSE]]
    /\ UNCHANGED <<cast, preds, result, users>>

\* the second request: the insert, and the return of True.  The UNIQUE
\* constraint on username is the advice of the docstring, not something
\* the application sets up: when the very same name is stored already the
\* insert either adds a second row or fails and the call raises.
RegisterInsert(s) ==
    /\ calls[s].op = "register" /\ calls[s].pc = "insert"
    /\ \/ /\ users' = users (+) SetToBag({calls[s].username})
          /\ calls' = [calls EXCEPT ![s].pc = "done", ![s].ret = TRUE]
       \/ /\ BagIn(calls[s].username, users)
          /\ users' = users
          /\ calls' = [calls EXCEPT ![s].pc = "failed"]
    /\ UNCHANGED <<cast, preds, result>>

(* ------------------------------------------------------------------ *)
(* get_game_state, request by request                                   *)
(* ------------------------------------------------------------------ *)
\* the record of a get_game_state call: its position, the castaways it
\* read first (cast_df), the predictions it read for the most recent
\* castaway (rows), the castaways calculate_scores read (scores_cast) and
\* the value returned
GameStateCall(pc, cast_df, rows, scores_cast, ret) ==
    [op |-> "get_game_state", pc |-> pc, cast_df |-> cast_df, rows |-> rows,
     scores_cast |-> scores_cast, ret |-> ret]

\* first request: the castaways.  An empty table raises, a table without
\* an elimination returns at once.
GameStateReadCast(s) ==
    /\ AtRest(s)
    /\ calls' = [calls EXCEPT ![s] =
          IF Len(cast) = 0 THEN GameStateCall("failed", <<>>, {}, <<>>, <<>>)
          ELSE IF Eliminated(cast) = {}
          THEN GameStateCall("done", <<>>, {}, <<>>, NotStarted(cast))
          ELSE GameStateCall("preds", cast, {}, <<>>, <<>>)]
    /\ UNCHANGED <<cast, preds, result, users>>

\* second request: the predictions on the most recent castaway
GameStateReadPreds(s) ==
    /\ calls[s].op = "get_game_state" /\ calls[s].pc = "preds"
    /\ calls' = [calls EXCEPT ![s].pc = "scores_cast",
                              ![s].rows = PredsFor(preds, MostRecent(calls[s].cast_df).player_name)]
    /\ UNCHANGED <<cast, preds, result, users>>

\* third request: calculate_scores reads the castaways
GameStateScoresReadCast(s) ==
    /\ calls[s].op = "get_game_state" /\ calls[s].pc = "scores_cast"
    /\ calls' = [calls EXCEPT ![s].pc = "scores_preds", ![s].scores_cast = cast]
    /\ UNCHANGED <<cast, preds, result, users>>

\* fourth request: calculate_scores reads the predictions and returns the
\* score list; get_game_state returns the snapshot
GameStateReturn(s) ==
    /\ calls[s].op = "get_game_state" /\ calls[s].pc = "scores_preds"
    /\ \E o \in calculate_scores(calls[s].scores_cast, preds) :
          calls' = [calls EXCEPT ![s] =
              IF o.raised THEN GameStateCall("failed", <<>>, {}, <<>>, <<>>)
              ELSE GameStateCall("done", <<>>, {}, <<>>,
                                 Snapshot(calls[s].cast_df, calls[s].rows, o.out))]
    /\ UNCHANGED <<cast, preds, result, users>>

(* ------------------------------------------------------------------ *)
(* Readers of the store                                                 *)
(* ------------------------------------------------------------------ *)
CalculateScores ==
    /\ result = NoResult
    /\ \E o \in calculate_scores(cast, preds) :
          result' = [op |-> "calculate_scores", raised |-> o.raised, out |-> o.out]
    /\ UNCHANGED <<cast, preds, conc>>

ComputeScoreProgression ==
    /\ result = NoResult
    /\ LET o == compute_score_progression(cast, preds)
       IN  result' = [op |-> "compute_score_progression", raised |-> o.raised,
                      out |-> o.out]
    /\ UNCHANGED <<cast, preds, conc>>

LoadAllPredictions ==
    /\ result = NoResult
    /\ \E o \in load_all_predictions(cast, preds) :
          result' = [op |-> "load_all_predictions", raised |-> o.raised, out |-> o.out]
    /\ UNCHANGED <<cast, preds, conc>>

GetGameState ==
    /\ result = NoResult
    /\ \E o \in get_game_state(cast, preds) :
          result' = [op |-> "get_game_state", raised |-> o.raised, out |-> o.out]
    /\ UNCHANGED <<cast, preds, conc>>

\* the Overview tab renders its narrative
TabOverview ==
    /\ result = NoResult
    /\ \E n \in tab_overview(cast, preds) :
          result' = [op |-> "tab_overview", raised |-> FALSE, out |-> n]
    /\ UNCHANGED <<cast, preds, conc>>

\* the page takes the returned value (Overview tab: scores_df, prog_df,
\* overview_df) and renders it
TakeResult ==
    /\ result # NoResult
    /\ result' = NoResult
    /\ UNCHANGED <<cast, preds, conc>>

(* ------------------------------------------------------------------ *)
(* Specification                                                        *)
(* ------------------------------------------------------------------ *)
Init ==
    /\ cast = <<>>
    /\ preds = EmptyBag
    /\ result = NoResult
    /\ users = EmptyBag
    /\ calls = [s \in Sessions |-> Idle]

Next ==
    \/ Seed
    \/ SetActualRank
    \/ \E i \in 1..Len(cast), f3 \in BOOLEAN, w \in BOOLEAN : SetFlags(i, f3, w)
    \/ \E u \in Users : SaveUserPredictions(u)
    \/ CalculateScores
    \/ ComputeScoreProgression
    \/ LoadAllPredictions
    \/ GetGameState
    \/ TabOverview
    \/ TakeResult

Spec == Init /\ [][Next]_vars

\* A finished season of three castaways with complete ballots: every
\* castaway has its rank, and every user has either no prediction or one
\* for each castaway, no rank used twice.  The readers run on it.
FinishedCast(flags) ==
    [i \in 1..3 |->
        [player_name |-> Roster[i], tribe |-> Tribe(Roster[i]), actual_rank |-> i,
         is_final_three |-> flags[i][1], is_winner |-> flags[i][2]]]

Ballots(u) ==
    {EmptyBag} \cup
    {SetToBag({[username |-> u, player_name |-> Roster[i], predicted_rank |-> b[i]] :
                 i \in 1..3}) :
        b \in {c \in [1..3 -> 1..3] : \A i, j \in 1..3 : i # j => c[i] # c[j]}}

InitSeason ==
    /\ \E flags \in [1..3 -> BOOLEAN \X BOOLEAN] :
          /\ cast = FinishedCast(flags)
          /\ Cardinality(Flagged(cast)) <= MaxFlagged
    /\ \E b1 \in Ballots(UserOrder[1]), b2 \in Ballots(UserOrder[2]) : preds = b1 (+) b2
    /\ result = NoResult
    /\ users = EmptyBag
    /\ calls = [s \in Sessions |-> Idle]

NextRead ==
    \/ CalculateScores
    \/ ComputeScoreProgression
    \/ LoadAllPredictions
    \/ TakeResult

SpecSeason == InitSeason /\ [][NextRead]_vars

\* A season of three castaways in progress, the first k of them voted out,
\* where every user has saved a partial or complete list in which no rank
\* is used twice.  The readers run on it.
SeasonCast(k) ==
    [i \in 1..3 |->
        [player_name |-> Roster[i], tribe |-> Tribe(Roster[i]),
         actual_rank |-> IF i <= k THEN i ELSE None,
         is_final_three |-> FALSE, is_winner |-> FALSE]]

PartialBallots(u) ==
    {SetToBag({[username |-> u, player_name |-> Roster[i], predicted_rank |-> b[i]] :
                 i \in DOMAIN b}) :
        b \in UNION {{c \in [D -> 1..3] : \A i, j \in D : i # j => c[i] # c[j]} :
                        D \in SUBSET (1..3)}}

InitStandings ==
    /\ \E k \in 0..3 : cast = SeasonCast(k)
    /\ \E b1 \in PartialBallots(UserOrder[1]), b2 \in PartialBallots(UserOrder[2]) :
          preds = b1 (+) b2
    /\ result = NoResult
    /\ users = EmptyBag
    /\ calls = [s \in Sessions |-> Idle]

SpecStandings == InitStandings /\ [][NextRead]_vars

\* A season of three castaways about to start; the users fill in and save
\* their lists on the My Picks tab.
InitPicks ==
    /\ cast = SeasonCast(0)
    /\ preds = EmptyBag
    /\ result = NoResult
    /\ users = EmptyBag
    /\ calls = [s \in Sessions |-> Idle]

NextPicks ==
    \/ \E u \in Users : SaveMyPicks(u)
    \/ TakeResult

SpecPicks == InitPicks /\ [][NextPicks]_vars

\* One user, logged in from two sessions, saves picks while the Overview
\* tab of another user reads: the requests of the calls interleave.  Two
\* castaways, the first voted out; the other user has a pick stored.
Saver == UserOrder[1]

ConcCast ==
    [i \in 1..2 |->
        [player_name |-> Roster[i], tribe |-> Tribe(Roster[i]),
         actual_rank |-> IF i = 1 THEN 1 ELSE None,
         is_final_three |-> FALSE, is_winner |-> FALSE]]

InitSave ==
    /\ cast = ConcCast
    /\ preds = SetToBag({[username |-> UserOrder[2], player_name |-> Roster[1],
                          predicted_rank |-> 2]})
    /\ result = NoResult
    /\ users = EmptyBag
    /\ calls = [s \in Sessions |-> Idle]

NextSave ==
    \/ \E s \in Sessions : SaveDelete(s, Saver)
    \/ \E s \in Sessions : SaveInsert(s)
    \/ CalculateScores
    \/ ComputeScoreProgression
    \/ LoadAllPredictions
    \/ TakeResult

SpecSave == InitSave /\ [][NextSave]_vars

\* Two sessions on the login page register names; the requests of their
\* calls interleave.
InitRegister ==
    /\ cast = <<>>
    /\ preds = EmptyBag
    /\ result = NoResult
    /\ users = EmptyBag
    /\ calls = [s \in Sessions |-> Idle]

NextRegister ==
    \/ \E s \in Sessions, n \in RegNames : RegisterCheck(s, n)
    \/ \E s \in Sessions : RegisterInsert(s)

SpecRegister == InitRegister /\ [][NextRegister]_vars

\* A session opens the Overview tab while the administrator enters
\* eliminations and a user saves picks: the requests of get_game_state
\* interleave with the writes.  Two castaways, nobody voted out yet.
Viewer == "s1"

InitState ==
    /\ cast = [i \in 1..2 |-> [ConcCast[i] EXCEPT !.actual_rank = None]]
    /\ preds = EmptyBag
    /\ result = NoResult
    /\ users = EmptyBag
    /\ calls = [s \in Sessions |-> Idle]

NextState ==
    \/ SetActualRank
    \/ SaveUserPredictions(Saver)
    \/ GameStateReadCast(Viewer)
    \/ GameStateReadPreds(Viewer)
    \/ GameStateScoresReadCast(Viewer)
    \/ GameStateReturn(Viewer)

SpecState == InitState /\ [][NextState]_vars

(* ------------------------------------------------------------------ *)
(* Properties of calculate_scores                                       *)
(* ------------------------------------------------------------------ *)
ScoresReturned == result.op = "calculate_scores" /\ ~result.raised

\* the castaways of the table that have an actual_rank
ScoredPool == {c \in Range(cast) : c.actual_rank # None}

\* the predictions of user u for castaway c
PicksFor(u, c) ==
    {r \in PredRows(preds) : r.username = u /\ r.player_name = c.player_name}

\* the predictions of u that reference no scored castaway
UnscoredPicks(u) ==
    {r \in PredRows(preds) :
        r.username = u /\ \A c \in ScoredPool : c.player_name # r.player_name}

\* the points the scoring rules give a predicted rank p for castaway c
BasePoints(c, p) == IF c.actual_rank <= p THEN c.actual_rank ELSE p
ExactPoints(c, p) == IF p = c.actual_rank THEN 1 ELSE 0
FinalThreePoints(c, p) ==
    IF (c.is_final_three \/ c.actual_rank >= Len(cast) - 2) /\ p >= Len(cast) - 2
    THEN 3 ELSE 0
WinnerPoints(c, p) ==
    IF (c.is_winner \/ c.actual_rank = Len(cast)) /\ p = Len(cast) THEN 5 ELSE 0
PickPoints(c, p) ==
    BasePoints(c, p) + ExactPoints(c, p) + FinalThreePoints(c, p) + WinnerPoints(c, p)

\* the sum of the points over the picks of u for scored castaways
ExpectedScore(u) ==
    SumFn([c \in ScoredPool |->
             SumFn([r \in PicksFor(u, c) |-> preds[r] * PickPoints(c, r.predicted_rank)])])

\* the predictions table without the rows that reference no scored castaway
ScorableOnly ==
    [r \in {q \in PredRows(preds) : \E c \in ScoredPool : c.player_name = q.player_name}
        |-> preds[r]]

PlayerScores(recs) == {<<rec.Player, rec.Score>> : rec \in recs}

\* C1: the Score reported for a user is the sum, over that user's
\* predictions for castaways with an actual_rank, of base + exact +
\* final-three + winner points; predictions for castaways without an
\* actual_rank or for unknown castaways add nothing, so the scores are
\* those of the table without such rows.
C1_ScoreIsSumOfPickPoints ==
    ScoresReturned =>
        /\ \A i \in 1..Len(result.out) :
              result.out[i].Score = ExpectedScore(result.out[i].Player)
        /\ PlayerScores(Range(result.out)) = PlayerScores(ScoreResults(cast, ScorableOnly))

\* C1 witness: scores were returned for a user who also holds a
\* prediction that references no scored castaway, in a season where rank
\* 1 lies outside the final three
C1_Witness ==
    /\ ScoresReturned
    /\ Len(cast) = 4
    /\ \E i \in 1..Len(result.out) :
          /\ UnscoredPicks(result.out[i].Player) # {}
          /\ result.out[i].Score > 0

\* Scenario A: three castaways with ranks {1,2,3}, no flag set, and a
\* single user whose three predictions are all exact
ScenarioA ==
    /\ Len(cast) = 3
    /\ \A i \in 1..3 : /\ cast[i].actual_rank \in 1..3
                       /\ ~cast[i].is_final_three
                       /\ ~cast[i].is_winner
    /\ {cast[i].actual_rank : i \in 1..3} = 1..3
    /\ \E u \in Users :
          preds = SetToBag({[username |-> u, player_name |-> cast[i].player_name,
                             predicted_rank |-> cast[i].actual_rank] : i \in 1..3})

\* C2 as stated: in Scenario A the user's total is 20
C2_ScenarioATotal20 ==
    (ScoresReturned /\ ScenarioA) =>
        (Len(result.out) = 1 /\ result.out[1].Score = 20)

\* C2 amended: in Scenario A the user's total is 23 (base 6, exact 3,
\* final-three 3 for each of the three picks, winner 5)
C2_ScenarioATotal23 ==
    (ScoresReturned /\ ScenarioA) =>
        (Len(result.out) = 1 /\ result.out[1].Score = 23)

\* C2 witness: calculate_scores has run on Scenario A
C2_Witness == ScoresReturned /\ ScenarioA /\ Len(result.out) = 1

\* the Score of u on the predictions table P (0 when u has no record)
ScoreOn(P, u) ==
    SumFn([rec \in {x \in ScoreResults(cast, P) : x.Player = u} |-> rec.Score])

\* the Score the returned list reports for u
ReportedScore(u) ==
    SumFn([i \in {k \in 1..Len(result.out) : result.out[k].Player = u}
              |-> result.out[i].Score])

\* what one copy of the pick r adds to the reported Score of its user
PickGain(r) == ReportedScore(r.username) - ScoreOn(preds (-) SetToBag({r}), r.username)

\* the picks of Scenario B: predicted rank N for a castaway eliminated earlier
ScenarioBPicks ==
    {<<r, c>> \in PredRows(preds) \X ScoredPool :
        /\ r.player_name = c.player_name
        /\ r.predicted_rank = Len(cast)
        /\ c.actual_rank < Len(cast)}

\* C3 as stated: a pick of rank N for a castaway eliminated earlier earns
\* its base score actual_rank and no winner bonus, whatever the flags
C3_NoWinnerBonusAnyFlags ==
    ScoresReturned =>
        \A rc \in ScenarioBPicks :
            PickGain(rc[1]) = rc[2].actual_rank + FinalThreePoints(rc[2], rc[1].predicted_rank)

\* C3 amended: such a pick earns its base score actual_rank; it earns no
\* winner bonus when the castaway's is_winner flag is false, and the +5
\* when the flag is set
C3_WinnerBonusOnlyByFlag ==
    ScoresReturned =>
        \A rc \in ScenarioBPicks :
            PickGain(rc[1]) = rc[2].actual_rank
                              + FinalThreePoints(rc[2], rc[1].predicted_rank)
                              + (IF rc[2].is_winner THEN 5 ELSE 0)

\* C3 witness: scores were returned for a pick of rank N on a castaway
\* eliminated earlier whose is_final_three flag is set and is_winner is not
C3_Witness ==
    /\ ScoresReturned
    /\ \E rc \in ScenarioBPicks : rc[2].is_final_three /\ ~rc[2].is_winner

\* C4: the score list has exactly one record for each user with at least
\* one prediction for a castaway with an actual_rank, and none for any
\* other user
C4_OneRecordPerScoredUser ==
    ScoresReturned =>
        \A u \in Users :
            Cardinality({i \in 1..Len(result.out) : result.out[i].Player = u})
              = IF \E c \in ScoredPool : PicksFor(u, c) # {} THEN 1 ELSE 0

\* C4 witness: a user whose predictions are all for castaways without an
\* actual_rank is absent from a non-empty score list
C4_Witness ==
    /\ ScoresReturned
    /\ Len(result.out) = 1
    /\ \E u \in Users :
          /\ \A i \in 1..Len(result.out) : result.out[i].Player # u
          /\ \E r \in PredRows(preds) : r.username = u /\ HasCast(cast, r.player_name)

\* C5: the score list is in descending Score order and its Rank column is
\* 1, 2, ..., K in list order, ties included
C5_DescendingWithDenseRank ==
    ScoresReturned =>
        /\ \A i \in 1..Len(result.out) : result.out[i].Rank = i
        /\ \A i \in 1..(Len(result.out) - 1) :
              result.out[i].Score >= result.out[i + 1].Score

\* C5 witness: two users tied on a positive score hold the ranks 1 and 2
C5_Witness ==
    /\ ScoresReturned
    /\ Len(result.out) = 2
    /\ result.out[1].Score = result.out[2].Score
    /\ result.out[1].Score > 0
    /\ result.out[1].Rank = 1 /\ result.out[2].Rank = 2

(* ------------------------------------------------------------------ *)
(* Properties of compute_score_progression                              *)
(* ------------------------------------------------------------------ *)
ProgressionCalled == result.op = "compute_score_progression"
ProgressionReturned == ProgressionCalled /\ ~result.raised

\* the records of the score list calculate_scores returns on this store
ScoreList == UNION {Range(o.out) : o \in {x \in calculate_scores(cast, preds) : ~x.raised}}

\* the positions of the points of user u in the returned series
PointsOf(u) == {i \in 1..Len(result.out) : result.out[i].Player = u}

\* the users with at least one pick for a scored castaway
ScoredUsers == {u \in Users : \E c \in ScoredPool : PicksFor(u, c) # {}}

\* the checkpoints: the actual_rank values of the eliminated castaways
Checkpoints == {c.actual_rank : c \in ScoredPool}

\* C6: for every user of the score list, the cumulative score of the
\* user's highest-checkpoint progression point equals the user's Score
C6_LastPointEqualsScore ==
    ProgressionCalled =>
        \A rec \in ScoreList :
            /\ ~result.raised
            /\ \E i \in PointsOf(rec.Player) :
                  /\ \A j \in PointsOf(rec.Player) :
                        result.out[j].Elimination <= result.out[i].Elimination
                  /\ result.out[i].Score = rec.Score

\* C6 witness: a user of the score list with points at two checkpoints,
\* a Score of at least 5 and a pick of rank N
C6_Witness ==
    /\ ProgressionReturned
    /\ \E rec \in ScoreList :
          /\ Cardinality(PointsOf(rec.Player)) >= 2
          /\ rec.Score >= 5
          /\ \E r \in PredRows(preds) :
                r.username = rec.Player /\ r.predicted_rank = Len(cast)

\* the point of user u at checkpoint k, and the running total before it
PointsAt(u, k) == {i \in PointsOf(u) : result.out[i].Elimination = k}
ScoreBefore(u, k) ==
    LET earlier == {i \in PointsOf(u) : result.out[i].Elimination < k}
    IN  IF earlier = {} THEN 0
        ELSE result.out[CHOOSE i \in earlier :
                           \A j \in earlier :
                              result.out[j].Elimination <= result.out[i].Elimination].Score

\* C7 as stated: exactly one point per (checkpoint, user) pair for every
\* actual_rank among the eliminated castaways, also one nobody predicted,
\* and every user with a scorable pick; where the user has no pick for
\* the checkpoint's castaway the point carries the unchanged running total
C7_PointPerCheckpointAndUser ==
    ProgressionReturned =>
        /\ \A k \in Checkpoints, u \in ScoredUsers :
              /\ Cardinality(PointsAt(u, k)) = 1
              /\ (\A c \in ScoredPool : c.actual_rank = k => PicksFor(u, c) = {})
                    => \A i \in PointsAt(u, k) : result.out[i].Score = ScoreBefore(u, k)
        /\ \A i \in 1..Len(result.out) :
              result.out[i].Elimination \in Checkpoints /\ result.out[i].Player \in ScoredUsers

\* C8 as stated: the returned series is ascending by checkpoint
C8_AscendingByCheckpoint ==
    ProgressionReturned =>
        \A i, j \in 1..Len(result.out) :
            i < j => result.out[i].Elimination <= result.out[j].Elimination

\* C8 amended: the series is grouped by user, users in ascending username
\* order, and within one user's points ascending by checkpoint
C8_AscendingWithinUser ==
    ProgressionReturned =>
        \A i, j \in 1..Len(result.out) :
            i < j =>
                /\ UserIdx(result.out[i].Player) <= UserIdx(result.out[j].Player)
                /\ result.out[i].Player = result.out[j].Player
                      => result.out[i].Elimination < result.out[j].Elimination

\* C8 witness: a series of two users and two checkpoints
C8_Witness ==
    /\ ProgressionReturned
    /\ Cardinality({result.out[i].Player : i \in 1..Len(result.out)}) >= 2
    /\ Cardinality({result.out[i].Elimination : i \in 1..Len(result.out)}) >= 2

AllRanksPositive ==
    /\ \A c \in ScoredPool : c.actual_rank >= 1
    /\ \A r \in PredRows(preds) : r.predicted_rank >= 1

\* C9: with positive ranks, the cumulative scores of a user do not
\* decrease from a checkpoint to a later one
C9_RunningTotalsMonotone ==
    (ProgressionReturned /\ AllRanksPositive) =>
        \A i, j \in 1..Len(result.out) :
            (/\ result.out[i].Player = result.out[j].Player
             /\ result.out[i].Elimination < result.out[j].Elimination)
                => result.out[i].Score <= result.out[j].Score

\* C9 witness: a user scores at the first checkpoint and has no pick at
\* the second, so the total stays flat
C9_Witness ==
    /\ ProgressionReturned
    /\ AllRanksPositive
    /\ \E i, j \in 1..Len(result.out) :
          /\ result.out[i].Player = result.out[j].Player
          /\ result.out[i].Elimination < result.out[j].Elimination
          /\ result.out[i].Score > 0
          /\ result.out[i].Score = result.out[j].Score

(* ------------------------------------------------------------------ *)
(* Properties of load_all_predictions                                   *)
(* ------------------------------------------------------------------ *)
StandingsCalled == result.op = "load_all_predictions"

\* C10: with at least one castaway, the standings have exactly one row
\* per castaway, castaways without an actual_rank included; the cell of
\* (castaway, user) is the user's predicted_rank for the castaway when
\* there is one and null otherwise; predictions for names that are not in
\* the castaways table add no row
C10_OneRowPerCastaway ==
    (StandingsCalled /\ Len(cast) >= 1) =>
        /\ ~result.raised
        /\ Len(result.out) = Len(cast)
        /\ \A i \in 1..Len(cast) :
              Cardinality({k \in 1..Len(result.out) :
                              result.out[k].player_name = cast[i].player_name}) = 1
        /\ \A k \in 1..Len(result.out) :
              /\ \E i \in 1..Len(cast) :
                    /\ cast[i].player_name = result.out[k].player_name
                    /\ cast[i].actual_rank = result.out[k].actual_rank
              /\ \A r \in PredRows(preds) :
                    r.player_name = result.out[k].player_name
                       => /\ r.username \in DOMAIN result.out[k].cells
                          /\ result.out[k].cells[r.username] = r.predicted_rank
              /\ \A u \in DOMAIN result.out[k].cells :
                    (\A r \in PredRows(preds) :
                        ~(r.username = u /\ r.player_name = result.out[k].player_name))
                       => result.out[k].cells[u] = None

\* C10 witness: standings with a row for a castaway without actual_rank,
\* a filled cell, a null cell, and a prediction for an unknown name
C10_Witness ==
    /\ StandingsCalled
    /\ ~result.raised
    /\ \E k \in 1..Len(result.out) : result.out[k].actual_rank = None
    /\ \E k \in 1..Len(result.out) :
          \E u, v \in DOMAIN result.out[k].cells :
              result.out[k].cells[u] = None /\ result.out[k].cells[v] # None
    /\ \E r \in PredRows(preds) : ~HasCast(cast, r.player_name)

(* ------------------------------------------------------------------ *)
(* C11: order and columns of the standings table                        *)
(* ------------------------------------------------------------------ *)
\* the stored predictions on a castaway, their number and their sum
PicksOn(name) == {r \in PredRows(preds) : r.player_name = name}
PickCount(name) == Cardinality(PicksOn(name))
PickSum(name) == SumFn([r \in PicksOn(name) |-> r.predicted_rank])

\* C11: when at least one prediction is stored, the rows returned by
\* load_all_predictions are in ascending order of the mean of the ranks
\* the users predicted for the row's castaway (the nulls left out); the
\* mean is not a column of the table, whose columns are tribe, actual_rank
\* and one column per user with a stored prediction.
C11_SortedByMeanRank ==
    (StandingsCalled /\ ~result.raised /\ preds # EmptyBag) =>
        /\ \A i, j \in 1..Len(result.out) :
              (i < j /\ PickCount(result.out[i].player_name) > 0
                     /\ PickCount(result.out[j].player_name) > 0) =>
                 PickSum(result.out[i].player_name) * PickCount(result.out[j].player_name)
                   <= PickSum(result.out[j].player_name) * PickCount(result.out[i].player_name)
        /\ \A i \in 1..Len(result.out) :
              /\ DOMAIN result.out[i] = {"player_name", "tribe", "actual_rank", "cells"}
              /\ DOMAIN result.out[i].cells = {r.username : r \in PredRows(preds)}

\* a returned table in which a castaway with two predictions stands above
\* one with a single prediction although the sum of its ranks is larger
C11_Witness ==
    /\ StandingsCalled /\ ~result.raised
    /\ \E i, j \in 1..Len(result.out) :
          /\ i < j
          /\ PickCount(result.out[i].player_name) = 2
          /\ PickCount(result.out[j].player_name) = 1
          /\ PickSum(result.out[i].player_name) > PickSum(result.out[j].player_name)

(* ------------------------------------------------------------------ *)
(* C12: the readers on an empty castaways table                         *)
(* ------------------------------------------------------------------ *)
GameStateCalled == result.op = "get_game_state"
ScoresCalled == result.op = "calculate_scores"

\* C12: on an empty castaways table no read fails: load_all_predictions
\* returns an empty table, calculate_scores an empty list (with or without
\* stored predictions), and get_game_state a snapshot with n_remaining = 0.
C12_EmptyCastawaysDegrade ==
    (cast = <<>> /\ (StandingsCalled \/ ScoresCalled \/ GameStateCalled)) =>
        /\ ~result.raised
        /\ (StandingsCalled \/ ScoresCalled) => result.out = <<>>
        /\ GameStateCalled => result.out.n_remaining = 0

(* ------------------------------------------------------------------ *)
(* C13: the readers on an empty predictions table                       *)
(* ------------------------------------------------------------------ *)
\* C13: with castaways in the table and no prediction stored,
\* calculate_scores returns an empty list, compute_score_progression an
\* empty series, load_all_predictions one row per castaway without any
\* user column, and get_game_state reports as n_eliminated the number of
\* castaways with an actual_rank and, when there is one, as most_recent
\* the castaway with the largest actual_rank.
C13_EmptyPredictions ==
    (preds = EmptyBag /\ Len(cast) >= 1) =>
        /\ (ScoresCalled \/ ProgressionCalled) =>
              ~result.raised /\ result.out = <<>>
        /\ StandingsCalled =>
              /\ ~result.raised
              /\ Len(result.out) = Len(cast)
              /\ \A i \in 1..Len(cast) :
                    Cardinality({k \in 1..Len(result.out) :
                        result.out[k].player_name = cast[i].player_name}) = 1
              /\ \A k \in 1..Len(result.out) : DOMAIN result.out[k].cells = {}
        /\ GameStateCalled =>
              /\ ~result.raised
              /\ result.out.n_eliminated =
                    Cardinality({i \in 1..Len(cast) : cast[i].actual_rank # None})
              /\ \A i \in 1..Len(cast) :
                    (/\ cast[i].actual_rank # None
                     /\ \A j \in 1..Len(cast) : cast[j].actual_rank <= cast[i].actual_rank)
                    => result.out.most_recent = <<cast[i]>>

\* get_game_state has returned on a store without predictions in which
\* two castaways are voted out
C13_Witness ==
    /\ preds = EmptyBag
    /\ GameStateCalled /\ ~result.raised
    /\ result.out.n_eliminated = 2
    /\ Len(result.out.most_recent) = 1

(* ------------------------------------------------------------------ *)
(* C14: the winner of a snapshot                                        *)
(* ------------------------------------------------------------------ *)
\* the winner the rule of the claim names on the current castaways table:
\* a castaway flagged is_winner if there is one, otherwise the castaway
\* whose actual_rank is the number of castaways, otherwise nobody
WinnerByRule(w) ==
    IF \E i \in 1..Len(cast) : cast[i].is_winner
    THEN \E i \in 1..Len(cast) : cast[i].is_winner /\ w = cast[i].player_name
    ELSE IF \E i \in 1..Len(cast) : cast[i].actual_rank = Len(cast)
    THEN \E i \in 1..Len(cast) :
            cast[i].actual_rank = Len(cast) /\ w = cast[i].player_name
    ELSE w = NoOne

\* C14 as stated: the winner of every snapshot follows the rule, also of a
\* snapshot taken while no castaway has an actual_rank.
C14_WinnerInEverySnapshot ==
    (GameStateCalled /\ ~result.raised) => WinnerByRule(result.out.winner)

\* C14: the winner of a snapshot taken when at least one castaway has an
\* actual_rank is a castaway flagged is_winner if there is one, otherwise
\* the castaway whose actual_rank is the number of castaways, otherwise
\* null; a snapshot taken while no castaway has an actual_rank has the
\* three keys n_eliminated, n_remaining and most_recent only and reports
\* no winner, whatever the flags.
C14_WinnerOnceStarted ==
    (GameStateCalled /\ ~result.raised) =>
        IF \E i \in 1..Len(cast) : cast[i].actual_rank # None
        THEN result.out.full /\ WinnerByRule(result.out.winner)
        ELSE ~result.out.full /\ result.out.winner = NoOne

\* a snapshot whose winner is the flagged castaway although another
\* castaway holds the rank equal to the number of castaways
C14_Witness ==
    /\ GameStateCalled /\ ~result.raised
    /\ \E i, j \in 1..Len(cast) :
          /\ i # j
          /\ cast[i].is_winner
          /\ cast[j].actual_rank = Len(cast)
          /\ result.out.winner = cast[i].player_name

(* ------------------------------------------------------------------ *)
(* C15: the leader line of the narrative                                *)
(* ------------------------------------------------------------------ *)
OverviewCalled == result.op = "tab_overview"

\* the users no other scored user has more points than
TopUsers == {u \in ScoredUsers : \A v \in ScoredUsers : ExpectedScore(v) <= ExpectedScore(u)}
\* the users only the top users have more points than
NextUsers ==
    {u \in ScoredUsers \ TopUsers :
        \A v \in ScoredUsers \ TopUsers : ExpectedScore(v) <= ExpectedScore(u)}

\* C15: with at least two scored users, when the two highest totals are
\* equal the narrative reports a gap of 0 and names the two tied users as
\* level at the top, no single leader; when the highest total is above
\* the second, it names that user the leader, with the positive gap.
C15_TieOrLeader ==
    (OverviewCalled /\ Cardinality(ScoredUsers) >= 2) =>
        IF Cardinality(TopUsers) >= 2
        THEN /\ result.out.line = "tied"
             /\ result.out.gap = 0
             /\ result.out.leader # result.out.second
             /\ {result.out.leader, result.out.second} \subseteq TopUsers
        ELSE /\ result.out.line = "leads"
             /\ result.out.gap > 0
             /\ result.out.leader \in TopUsers
             /\ result.out.second \in NextUsers
             /\ result.out.gap =
                   ExpectedScore(result.out.leader) - ExpectedScore(result.out.second)

\* a narrative rendered while two scored users hold the same total
C15_Witness ==
    /\ OverviewCalled
    /\ Cardinality(ScoredUsers) = 2
    /\ Cardinality(TopUsers) = 2
    /\ result.out.line = "tied"

(* ------------------------------------------------------------------ *)
(* C18: the duplicate check of the Save My Picks button                 *)
(* ------------------------------------------------------------------ *)
\* the stored rows of user u
RowsOfUser(P, u) == {r \in PredRows(P) : r.username = u}

\* the rows a frame stands for: one per row of the frame with a rank
RowsOfFrame(u, edited) ==
    {[username |-> u, player_name |-> n, predicted_rank |-> edited[n]] :
        n \in {m \in DOMAIN edited : edited[m] # None}}

\* the frame uses some rank for two castaways
RankUsedTwice(edited) ==
    \E m, n \in DOMAIN edited : m # n /\ edited[m] # None /\ edited[m] = edited[n]

\* no user has two stored rows with the same predicted_rank
NoRankStoredTwice ==
    \A r \in PredRows(preds) :
        /\ preds[r] = 1
        /\ \A q \in PredRows(preds) :
              (q # r /\ q.username = r.username) => q.predicted_rank # r.predicted_rank

SavingAlone(s) ==
    /\ calls[s].op = "save" /\ calls[s].pc = "insert"
    /\ \A t \in Sessions \ {s} :
          ~(calls[t].op = "save" /\ calls[t].username = calls[s].username)

\* the rows of user u the returned standings table shows
RowsShown(u) ==
    {[username |-> u, player_name |-> result.out[k].player_name,
      predicted_rank |-> result.out[k].cells[u]] :
        k \in {i \in 1..Len(result.out) :
                 u \in DOMAIN result.out[i].cells /\ result.out[i].cells[u] # None}}

\* C16: a read that runs while a save is in flight sees, for the saving
\* user, either all the rows of before the save or all the rows the save
\* writes, never the state between the delete and the insert: the
\* standings show one of the two sets, and the score list has the user
\* when both sets have a pick for a castaway that is voted out.
C16_ReaderSeesOldOrNew ==
    \A s \in Sessions :
        SavingAlone(s) =>
            /\ (StandingsCalled /\ ~result.raised) =>
                  RowsShown(calls[s].username) \in {calls[s].old, calls[s].rows}
            /\ (ScoresReturned
                  /\ \A set \in {calls[s].old, calls[s].rows} :
                        \E r \in set : \E c \in ScoredPool : c.player_name = r.player_name)
                => \E k \in 1..Len(result.out) : result.out[k].Player = calls[s].username

(* ------------------------------------------------------------------ *)
(* C17: two concurrent saves of one user                                *)
(* ------------------------------------------------------------------ *)
\* the last save of session s was for user u and has ended
SaveEnded(s, u) ==
    calls[s].op = "save" /\ calls[s].username = u /\ calls[s].pc \in {"done", "failed"}

\* the stored rows of user u, as a bag
StoredOf(u) == [r \in {q \in PredRows(preds) : q.username = u} |-> preds[r]]

\* C17: when the saves of two sessions for one user have both ended, the
\* user's stored rows are exactly the rows one of the two wrote, not a
\* mixture or union of both; and at all times the table has at most one
\* row per (username, player_name).
C17_LastWriterWins ==
    /\ \A u \in Users :
          (\A s \in Sessions : SaveEnded(s, u)) =>
              \E s \in Sessions : StoredOf(u) = SetToBag(calls[s].rows)
    /\ \A r \in PredRows(preds) :
          /\ preds[r] = 1
          /\ \A q \in PredRows(preds) :
                (q.username = r.username /\ q.player_name = r.player_name) => q = r

(* ------------------------------------------------------------------ *)
(* C19: concurrent registrations                                        *)
(* ------------------------------------------------------------------ *)
\* the last call of session s was register_user(name) and returned True
ReturnedTrue(s, name) ==
    /\ calls[s].op = "register" /\ calls[s].pc = "done"
    /\ calls[s].username = name /\ calls[s].ret

\* C19: however the register_user calls interleave, the users table never
\* has two rows whose usernames are equal ignoring case, and of the calls
\* that register one name at most one returns True.
C19_NoDuplicateUsers ==
    /\ \A n \in BagToSet(users) :
          /\ users[n] = 1
          /\ \A m \in BagToSet(users) : Lower(m) = Lower(n) => m = n
    /\ \A n \in RegNames :
          Cardinality({s \in Sessions : ReturnedTrue(s, n)}) <= 1

(* ------------------------------------------------------------------ *)
(* C20: the snapshot of get_game_state and concurrent writes            *)
(* ------------------------------------------------------------------ *)
\* the last call of session s was get_game_state and returned the full dict
SnapshotReturned(s) ==
    /\ calls[s].op = "get_game_state" /\ calls[s].pc = "done"
    /\ calls[s].ret.full

\* the records of user u in the scores bundled with the snapshot of s
BundledRecords(s, u) ==
    {k \in 1..Len(calls[s].ret.scores) : calls[s].ret.scores[k].Player = u}

\* C20: every snapshot get_game_state returns describes one state of the
\* store, whatever writes interleave with its reads.  In one state of the
\* store a user named in the exact, too_high or too_low list has a pick
\* for the most recent castaway, who is voted out, and so has a record in
\* the bundled scores, with an exact pick counted when the user is in the
\* exact list; and no record counts more scored picks than n_eliminated.
C20_SnapshotOfOneState ==
    \A s \in Sessions :
        SnapshotReturned(s) =>
            LET g == calls[s].ret
            IN  /\ \A u \in g.exact \cup g.too_high \cup g.too_low :
                      BundledRecords(s, u) # {}
                /\ \A u \in g.exact :
                      \A k \in BundledRecords(s, u) : g.scores[k].Exact >= 1
                /\ \A k \in 1..Len(g.scores) : g.scores[k].Picks <= g.n_eliminated

====
